---- MODULE Spec2Model ----
(***************************************************************************)
(* Open3D core: the Dtype registry (Dtype.h / Dtype.cpp) and the CPU       *)
(* matrix-multiply dispatcher MatmulCPU.                                   *)
(*                                                                         *)
(* Every public operation is one action.  The operations are pure, so a    *)
(* behaviour is one call: Init draws the call and its arguments from a     *)
(* bounded input set, the action runs it and records what came of it.      *)
(***************************************************************************)
EXTENDS Integers, Sequences, FiniteSets

VARIABLES call, outcome

vars == <<call, outcome>>

(***************************************************************************)
(* Bounds of the model.                                                    *)
(***************************************************************************)
\* largest size of one tensor dimension
MaxDim == 2
\* largest value of the single non-zero element of a unit-pattern matrix
MaxVal == 2
\* largest integer a Dtype object is forged from (values above Bool are
\* outside the enumeration)
MaxDtypeValue == 9

(***************************************************************************)
(* enum class Dtype, in declaration order.                                 *)
(***************************************************************************)
Undefined == 0
Float32 == 1
Float64 == 2
Int32 == 3
Int64 == 4
UInt8 == 5
UInt16 == 6
Bool == 7

WellKnownDtypes == {Undefined, Float32, Float64, Int32, Int64, UInt8, UInt16, Bool}

\* every value a Dtype variable can hold in the model
DtypeValues == 0..MaxDtypeValue

(***************************************************************************)
(* C++ primitive types.  SupportedTypes are those with an explicit         *)
(* FromType specialization; OtherTypes are distinct arithmetic types that  *)
(* reach the primary template.                                             *)
(***************************************************************************)
SupportedTypes == {"float", "double", "int32_t", "int64_t", "uint8_t", "uint16_t", "bool"}

OtherTypes == {"int8_t", "int16_t", "uint32_t", "uint64_t", "char", "long double"}

PrimitiveTypes == SupportedTypes \cup OtherTypes

\* platform byte size of the supported types, as the static_asserts fix it
SizeOf(T) ==
    CASE T = "float" -> 4
      [] T = "double" -> 8
      [] T = "int32_t" -> 4
      [] T = "int64_t" -> 8
      [] T = "uint8_t" -> 1
      [] T = "uint16_t" -> 2
      [] T = "bool" -> 1

(***************************************************************************)
(* utility::LogError: reports the formatted message and terminates the     *)
(* current operation (it does not return to its caller).  The value is     *)
(* the outcome of the operation that called it.                            *)
(***************************************************************************)
LogError(fmt, args) ==
    [status |-> "error", error |-> [fmt |-> fmt, args |-> args]]

\* normal completion of an operation with value v
Return(v) == [status |-> "returned", value |-> v]

(***************************************************************************)
(* DtypeUtil                                                               *)
(***************************************************************************)
\* faulty variant: the default case falls through to "return byte_size" (0)
DtypeUtil_ByteSize_DefaultReturns(dtype) ==
    CASE dtype = Float32 -> Return(4)
      [] dtype = Float64 -> Return(8)
      [] dtype = Int32 -> Return(4)
      [] dtype = Int64 -> Return(8)
      [] dtype = UInt8 -> Return(1)
      [] dtype = UInt16 -> Return(2)
      [] dtype = Bool -> Return(1)
      [] OTHER -> Return(0)

DtypeUtil_ByteSize(dtype) ==
    CASE dtype = Float32 -> Return(4)
      [] dtype = Float64 -> Return(8)
      [] dtype = Int32 -> Return(4)
      [] dtype = Int64 -> Return(8)
      [] dtype = UInt8 -> Return(1)
      [] dtype = UInt16 -> Return(2)
      [] dtype = Bool -> Return(1)
      [] OTHER -> LogError("Unsupported data type", <<>>)

DtypeUtil_ToString(dtype) ==
    CASE dtype = Undefined -> Return("Undefined")
      [] dtype = Float32 -> Return("Float32")
      [] dtype = Float64 -> Return("Float64")
      [] dtype = Int32 -> Return("Int32")
      [] dtype = Int64 -> Return("Int64")
      [] dtype = UInt8 -> Return("UInt8")
      [] dtype = UInt16 -> Return("UInt16")
      [] dtype = Bool -> Return("Bool")
      [] OTHER -> LogError("Unsupported data type", <<>>)

\* faulty variant: the primary template returns Dtype::Undefined
DtypeUtil_FromType_ReturnsUndefined(T) ==
    CASE T = "float" -> Return(Float32)
      [] T = "double" -> Return(Float64)
      [] T = "int32_t" -> Return(Int32)
      [] T = "int64_t" -> Return(Int64)
      [] T = "uint8_t" -> Return(UInt8)
      [] T = "uint16_t" -> Return(UInt16)
      [] T = "bool" -> Return(Bool)
      [] OTHER -> Return(Undefined)

\* faulty variant: the uint8_t specialization returns Dtype::Bool
DtypeUtil_FromType_UInt8IsBool(T) ==
    CASE T = "float" -> Return(Float32)
      [] T = "double" -> Return(Float64)
      [] T = "int32_t" -> Return(Int32)
      [] T = "int64_t" -> Return(Int64)
      [] T = "uint8_t" -> Return(Bool)
      [] T = "uint16_t" -> Return(UInt16)
      [] T = "bool" -> Return(Bool)
      [] OTHER -> LogError("Unsupported data type", <<>>)

DtypeUtil_FromType(T) ==
    CASE T = "float" -> Return(Float32)
      [] T = "double" -> Return(Float64)
      [] T = "int32_t" -> Return(Int32)
      [] T = "int64_t" -> Return(Int64)
      [] T = "uint8_t" -> Return(UInt8)
      [] T = "uint16_t" -> Return(UInt16)
      [] T = "bool" -> Return(Bool)
      [] OTHER -> LogError("Unsupported data type", <<>>)

(***************************************************************************)
(* ObjDtype: the well-known constants of Dtype.cpp (dtype_code_,           *)
(* byte_size_) and the FromType specializations.                           *)
(***************************************************************************)
ObjDtype(dtype_code, byte_size) == [dtype_code |-> dtype_code, byte_size |-> byte_size]

ObjDtype_Undefined == ObjDtype("Undefined", 1)
ObjDtype_Float32 == ObjDtype("Float", 4)
ObjDtype_Float64 == ObjDtype("Float", 8)
ObjDtype_Int32 == ObjDtype("Int", 4)
ObjDtype_Int64 == ObjDtype("Int", 8)
ObjDtype_UInt8 == ObjDtype("UInt", 1)
ObjDtype_UInt16 == ObjDtype("UInt", 2)
ObjDtype_Bool == ObjDtype("Bool", 1)

ObjDtype_ByteSize(d) == d.byte_size

ObjDtype_FromType(T) ==
    CASE T = "float" -> Return(ObjDtype_Float32)
      [] T = "double" -> Return(ObjDtype_Float64)
      [] T = "int32_t" -> Return(ObjDtype_Int32)
      [] T = "int64_t" -> Return(ObjDtype_Int64)
      [] T = "uint8_t" -> Return(ObjDtype_UInt8)
      [] T = "uint16_t" -> Return(ObjDtype_UInt16)
      [] T = "bool" -> Return(ObjDtype_Bool)
      [] OTHER -> LogError("Unsupported data type", <<>>)

(***************************************************************************)
(* Tensor: shape, strides (in elements), dtype, device and the elements    *)
(* of its buffer in address order.  Indices are 0-based as in the code;    *)
(* TLA+ sequences are 1-based, hence the "+ 1".                            *)
(***************************************************************************)
Tensor(shape, strides, dtype, device, data) ==
    [shape |-> shape, strides |-> strides, dtype |-> dtype, device |-> device, data |-> data]

RECURSIVE NumElements(_)
NumElements(shape) ==
    IF shape = <<>> THEN 1 ELSE Head(shape) * NumElements(Tail(shape))

\* strides of a dense tensor: the last dimension varies fastest
RECURSIVE DefaultStrides(_)
DefaultStrides(shape) ==
    IF shape = <<>> THEN <<>>
    ELSE <<NumElements(Tail(shape))>> \o DefaultStrides(Tail(shape))

\* element (i, j) of a rank-2 tensor, read through the tensor's own strides
At(T, i, j) == T.data[i * T.strides[1] + j * T.strides[2] + 1]

\* Tensor::Contiguous on a rank-2 tensor: the tensor itself when it is dense
\* with default strides, otherwise a dense copy of its elements
Contiguous(T) ==
    IF T.strides = DefaultStrides(T.shape) THEN T
    ELSE Tensor(T.shape, DefaultStrides(T.shape), T.dtype, T.device,
                [p \in 1..NumElements(T.shape) |->
                    At(T, (p - 1) \div T.shape[2], (p - 1) % T.shape[2])])

\* Tensor::Zeros: a dense zero-filled tensor; its buffer holds
\* ByteSize(dtype) * NumElements(shape) bytes
Zeros(shape, dtype, device) ==
    Tensor(shape, DefaultStrides(shape), dtype, device,
           [p \in 1..NumElements(shape) |-> 0])

\* size in bytes of the buffer of a dense tensor
NumBytes(T) == DtypeUtil_ByteSize(T.dtype).value * NumElements(T.shape)

(***************************************************************************)
(* cblas_sgemm(CblasColMajor, CblasNoTrans, CblasNoTrans, ...): a, b, c    *)
(* are buffers of floats; element (i, j) of a column-major matrix with     *)
(* leading dimension ld is at offset i + j * ld.                           *)
(***************************************************************************)
RECURSIVE DotColMajor(_, _, _, _, _, _, _)
DotColMajor(a, lda, b, ldb, i, j, k) ==
    IF k = 0 THEN 0
    ELSE DotColMajor(a, lda, b, ldb, i, j, k - 1)
         + a[i + (k - 1) * lda + 1] * b[(k - 1) + j * ldb + 1]

cblas_sgemm(m, n, k, alpha, a, lda, b, ldb, beta, c, ldc) ==
    [p \in 1..Len(c) |->
        LET i == (p - 1) % ldc
            j == (p - 1) \div ldc
        IN  IF i < m /\ j < n
            THEN alpha * DotColMajor(a, lda, b, ldb, i, j, k) + beta * c[p]
            ELSE c[p]]

\* sizeof(float)
SizeofFloat == 4

\* an element whose bits are float bits read through another dtype, or the
\* other way round, or whatever an out-of-bounds access found
Indeterminate == -1

(***************************************************************************)
(* The buffer of C after the cblas_sgemm call of MatmulCPU on the dense    *)
(* copies Ac, Bc.  The buffers are handed over as float* whatever their    *)
(* dtype:                                                                  *)
(*  - Float32 operands: the floats are the elements;                       *)
(*  - Int32 operands holding small non-negative integers: each element,    *)
(*    read as a float, is zero or a subnormal below 2^-126, every product  *)
(*    underflows to 0.0f, whose bits are the Int32 0;                      *)
(*  - anything else: not tracked.                                          *)
(***************************************************************************)
GemmOnBuffers(m, n, k, Ac, Bc, C) ==
    IF Ac.dtype = Float32 /\ Bc.dtype = Float32
    THEN cblas_sgemm(m, n, k, 1, Ac.data, m, Bc.data, k, 0, C.data, m)
    ELSE IF Ac.dtype = Int32 /\ Bc.dtype = Int32
    THEN [p \in 1..Len(C.data) |-> 0]
    ELSE [p \in 1..Len(C.data) |-> Indeterminate]

(***************************************************************************)
(* MatmulCPU(A, B): the set of outcomes of the call (one, unless the call  *)
(* has undefined behaviour).  Besides the status and the returned tensor   *)
(* an outcome records what the call did:                                   *)
(*   reads     the shape entries read with operator[]                      *)
(*   allocated the tensors created by Tensor::Zeros                        *)
(*   gemm      the number of calls of cblas_sgemm                          *)
(*   written   the byte offsets from C_data that cblas_sgemm writes        *)
(***************************************************************************)
MatmulFail(err, reads) ==
    [status |-> "error", error |-> err.error, reads |-> reads,
     allocated |-> {}, gemm |-> 0, written |-> {}]

\* MatmulCPU after its checks: allocate C, make the operands dense, call
\* cblas_sgemm, return C
MatmulCompute(A, B) ==
    LET m == A.shape[1]
        k == A.shape[2]
        n == B.shape[2]
        C == Zeros(<<m, n>>, A.dtype, A.device)
        Ac == Contiguous(A)
        Bc == Contiguous(B)
        reads == {<<"A", 0>>, <<"A", 1>>, <<"B", 0>>, <<"B", 1>>}
        written == 0..(SizeofFloat * m * n - 1)
        \* cblas_sgemm reads m*k and k*n floats and writes m*n floats
        inBounds == /\ SizeofFloat * m * k <= NumBytes(Ac)
                    /\ SizeofFloat * k * n <= NumBytes(Bc)
                    /\ SizeofFloat * m * n <= NumBytes(C)
        done(data) == [status |-> "returned", value |-> [C EXCEPT !.data = data],
                       reads |-> reads, allocated |-> {C}, gemm |-> 1,
                       written |-> written]
    IN  IF inBounds
        THEN {done(GemmOnBuffers(m, n, k, Ac, Bc, C))}
        ELSE \* out-of-bounds access: the call returns with whatever it found,
             \* or the process dies
             {done([p \in 1..(m * n) |-> Indeterminate]),
              [status |-> "crashed", reads |-> reads, allocated |-> {C},
               gemm |-> 1, written |-> written]}

\* faulty variant: an inner-dimension mismatch is logged but the call goes on
MatmulCPU_MismatchGoesOn(A, B) ==
    IF Len(A.shape) # 2
    THEN {MatmulFail(LogError("Tensor A must be 2D, but got {}D", <<Len(A.shape)>>), {})}
    ELSE IF Len(B.shape) # 2
    THEN {MatmulFail(LogError("Tensor B must be 2D, but got {}D", <<Len(B.shape)>>), {})}
    ELSE MatmulCompute(A, B)

\* faulty variant: the rank of B is checked before the rank of A
MatmulCPU_ChecksBFirst(A, B) ==
    IF Len(B.shape) # 2
    THEN {MatmulFail(LogError("Tensor B must be 2D, but got {}D", <<Len(B.shape)>>), {})}
    ELSE IF Len(A.shape) # 2
    THEN {MatmulFail(LogError("Tensor A must be 2D, but got {}D", <<Len(A.shape)>>), {})}
    ELSE IF A.shape[2] # B.shape[1]
    THEN {MatmulFail(LogError("Tensor A columns {} mismatch with Tensor B rows {}",
                              <<A.shape[2], B.shape[1]>>),
                     {<<"A", 1>>, <<"B", 0>>})}
    ELSE MatmulCompute(A, B)

\* faulty variant: the mismatch message names the two sizes in the other order
MatmulCPU_SwapsMessageArgs(A, B) ==
    IF Len(A.shape) # 2
    THEN {MatmulFail(LogError("Tensor A must be 2D, but got {}D", <<Len(A.shape)>>), {})}
    ELSE IF Len(B.shape) # 2
    THEN {MatmulFail(LogError("Tensor B must be 2D, but got {}D", <<Len(B.shape)>>), {})}
    ELSE IF A.shape[2] # B.shape[1]
    THEN {MatmulFail(LogError("Tensor A columns {} mismatch with Tensor B rows {}",
                              <<B.shape[1], A.shape[2]>>),
                     {<<"A", 1>>, <<"B", 0>>})}
    ELSE MatmulCompute(A, B)

\* faulty variant: C takes its dtype and device from B
MatmulCPU_ResultLikeB(A, B) ==
    IF Len(A.shape) # 2
    THEN {MatmulFail(LogError("Tensor A must be 2D, but got {}D", <<Len(A.shape)>>), {})}
    ELSE IF Len(B.shape) # 2
    THEN {MatmulFail(LogError("Tensor B must be 2D, but got {}D", <<Len(B.shape)>>), {})}
    ELSE IF A.shape[2] # B.shape[1]
    THEN {MatmulFail(LogError("Tensor A columns {} mismatch with Tensor B rows {}",
                              <<A.shape[2], B.shape[1]>>),
                     {<<"A", 1>>, <<"B", 0>>})}
    ELSE MatmulCompute([A EXCEPT !.dtype = B.dtype, !.device = B.device], B)

MatmulCPU(A, B) ==
    LET A_shape == A.shape
        B_shape == B.shape
    IN
    IF Len(A_shape) # 2
    THEN {MatmulFail(LogError("Tensor A must be 2D, but got {}D", <<Len(A_shape)>>), {})}
    ELSE IF Len(B_shape) # 2
    THEN {MatmulFail(LogError("Tensor B must be 2D, but got {}D", <<Len(B_shape)>>), {})}
    ELSE IF A_shape[2] # B_shape[1]
    THEN {MatmulFail(LogError("Tensor A columns {} mismatch with Tensor B rows {}",
                              <<A_shape[2], B_shape[1]>>),
                     {<<"A", 1>>, <<"B", 0>>})}
    ELSE MatmulCompute(A, B)

(***************************************************************************)
(* Inputs.                                                                 *)
(***************************************************************************)
Dims == 1..MaxDim

Ranks == {0, 1, 2, 3}

Shapes == UNION {[1..r -> Dims] : r \in Ranks}

Devices == {"CPU:0", "CUDA:0"}

\* a tensor that holds data has one of the seven sized dtypes
OperandDtypes == WellKnownDtypes \ {Undefined}

\* buffer contents: start, start + 1, ...
Ramp(start, e) == [p \in 1..e |-> start + p - 1]

\* buffer contents: v at position q, zero elsewhere
Unit(q, v, e) == [p \in 1..e |-> IF p = q THEN v ELSE 0]

Patterns(e) ==
    {Ramp(1, e), Ramp(5, e)} \cup {Unit(q, v, e) : q \in 1..e, v \in 1..MaxVal}

\* strides of a rank-2 tensor: dense, or the transposed view of a dense tensor
Strides2(shape) == {DefaultStrides(shape), <<1, shape[1]>>}

\* tensors of every shape, dtype and device, elements 1, 2, ...
SweepTensors ==
    {Tensor(s, DefaultStrides(s), d, v, Ramp(1, NumElements(s))) :
        s \in Shapes, d \in OperandDtypes, v \in Devices}

\* matrices of 4-byte elements with every pattern and both stridings
ValueTensors ==
    UNION {{Tensor(s, st, d, "CPU:0", x) :
                st \in Strides2(s), d \in {Float32, Int32},
                x \in Patterns(NumElements(s))} :
           s \in [1..2 -> Dims]}

MatmulInputs ==
    (SweepTensors \X SweepTensors)
    \cup {ab \in ValueTensors \X ValueTensors : ab[1].shape[2] = ab[2].shape[1]}

(***************************************************************************)
(* The operations are pure: a behaviour is one call.  Init draws the call  *)
(* and its arguments, and the action of the operation called runs it.      *)
(***************************************************************************)
Calls ==
    {[op |-> "Matmul", A |-> ab[1], B |-> ab[2]] : ab \in MatmulInputs}
    \cup {[op |-> "ByteSize", dtype |-> d] : d \in DtypeValues}
    \cup {[op |-> "ToString", dtype |-> d] : d \in DtypeValues}
    \cup {[op |-> "FromType", T |-> T] : T \in PrimitiveTypes}
    \cup {[op |-> "ObjFromType", T |-> T] : T \in PrimitiveTypes}

Init ==
    /\ call \in Calls
    /\ outcome = [status |-> "pending"]

Pending(op) == call.op = op /\ outcome.status = "pending"

Matmul ==
    /\ Pending("Matmul")
    /\ outcome' \in MatmulCPU(call.A, call.B)
    /\ UNCHANGED call

CallByteSize ==
    /\ Pending("ByteSize")
    /\ outcome' = DtypeUtil_ByteSize(call.dtype)
    /\ UNCHANGED call

CallToString ==
    /\ Pending("ToString")
    /\ outcome' = DtypeUtil_ToString(call.dtype)
    /\ UNCHANGED call

CallFromType ==
    /\ Pending("FromType")
    /\ outcome' = DtypeUtil_FromType(call.T)
    /\ UNCHANGED call

CallObjFromType ==
    /\ Pending("ObjFromType")
    /\ outcome' = ObjDtype_FromType(call.T)
    /\ UNCHANGED call

Next == Matmul \/ CallByteSize \/ CallToString \/ CallFromType \/ CallObjFromType

Spec == Init /\ [][Next]_vars

(***************************************************************************)
(* Properties.                                                             *)
(***************************************************************************)
MatmulDone == call.op = "Matmul" /\ outcome.status # "pending"

BothRank2 == Len(call.A.shape) = 2 /\ Len(call.B.shape) = 2

Compatible == BothRank2 /\ call.A.shape[2] = call.B.shape[1]

\* sum over l < k of A[i][l] * B[l][j], the operands read as matrices
RECURSIVE Dot(_, _, _, _, _)
Dot(A, B, i, j, k) ==
    IF k = 0 THEN 0
    ELSE Dot(A, B, i, j, k - 1) + At(A, i, k - 1) * At(B, k - 1, j)

IsMatrixProduct(C, A, B) ==
    \A i \in 0..(A.shape[1] - 1), j \in 0..(B.shape[2] - 1) :
        At(C, i, j) = Dot(A, B, i, j, A.shape[2])

RankMessage(name) == "Tensor " \o name \o " must be 2D, but got {}D"

MismatchMessage == "Tensor A columns {} mismatch with Tensor B rows {}"

UnsupportedMessage == "Unsupported data type"

C2_RowTimesColumnIsDot ==
    (MatmulDone /\ Compatible
        /\ call.A.shape[1] = 1 /\ call.B.shape[2] = 1)
    => /\ outcome.status = "returned"
       /\ outcome.value.shape = <<1, 1>>
       /\ At(outcome.value, 0, 0) = Dot(call.A, call.B, 0, 0, call.A.shape[2])

\* C3: the tensor Matmul returns for shapes (m,k) and (k,n) has shape (m,n)
\* and the dtype and device of A, whatever the dtype and device of B.
C3_ResultShapeDtypeDevice ==
    (MatmulDone /\ Compatible /\ outcome.status = "returned")
    => /\ outcome.value.shape = <<call.A.shape[1], call.B.shape[2]>>
       /\ outcome.value.dtype = call.A.dtype
       /\ outcome.value.device = call.A.device

C3_Witness ==
    /\ MatmulDone /\ Compatible /\ outcome.status = "returned"
    /\ call.A.shape[1] # call.B.shape[2]
    /\ call.B.dtype # call.A.dtype
    /\ call.B.device # call.A.device

\* C4: a failed precondition ends the call with the error: no shape entry is
\* read out of range, nothing is allocated, cblas_sgemm is not called and no
\* tensor is returned; a tensor is returned only when every precondition
\* passed and cblas_sgemm was called.
C4_NoPartialResult ==
    MatmulDone
    => /\ ~Compatible
          => /\ outcome.status = "error"
             /\ outcome.allocated = {}
             /\ outcome.gemm = 0
             /\ outcome.written = {}
       /\ \A r \in outcome.reads :
             r[2] < Len(IF r[1] = "A" THEN call.A.shape ELSE call.B.shape)
       /\ outcome.status = "returned"
          => /\ Compatible
             /\ outcome.gemm = 1
             /\ outcome.value \in {[C EXCEPT !.data = outcome.value.data] :
                                      C \in outcome.allocated}

C4_Witness ==
    /\ MatmulDone /\ BothRank2 /\ ~Compatible
    /\ outcome.status = "error"
    /\ outcome.reads = {<<"A", 1>>, <<"B", 0>>}

\* C5: when A is not rank 2 the call fails with the message that reports the
\* rank of A, whatever B is, and no shape entry has been read (the
\* inner-dimension check is not reached).
C5_RankOfAReported ==
    (MatmulDone /\ Len(call.A.shape) # 2)
    => /\ outcome.status = "error"
       /\ outcome.error.fmt = RankMessage("A")
       /\ outcome.error.args = <<Len(call.A.shape)>>
       /\ outcome.reads = {}

C5_Witness ==
    /\ MatmulDone
    /\ Len(call.A.shape) = 3 /\ Len(call.B.shape) = 1
    /\ call.A.shape[2] # call.B.shape[1]
    /\ outcome.status = "error"
    /\ outcome.error.args = <<3>>

\* C6: rank-2 operands whose inner dimensions differ fail with the message
\* that reports A.shape[1] first and B.shape[0] second; operands whose inner
\* dimensions agree never fail with that message.
C6_MismatchReported ==
    (MatmulDone /\ BothRank2)
    => /\ call.A.shape[2] # call.B.shape[1]
          => /\ outcome.status = "error"
             /\ outcome.error.fmt = MismatchMessage
             /\ outcome.error.args = <<call.A.shape[2], call.B.shape[1]>>
       /\ call.A.shape[2] = call.B.shape[1]
          => ~(outcome.status = "error" /\ outcome.error.fmt = MismatchMessage)

C6_Witness ==
    /\ MatmulDone /\ BothRank2
    /\ call.A.shape = <<1, 2>> /\ call.B.shape = <<1, 2>>
    /\ outcome.status = "error"
    /\ outcome.error.args = <<2, 1>>

\* C7: whatever the dtype of A, every byte cblas_sgemm writes lies inside the
\* buffer of the C that Matmul allocated, ByteSize(A.dtype) * m * n bytes.
C7_WritesOnlyInsideC ==
    (MatmulDone /\ Compatible)
    => \A C \in outcome.allocated :
          outcome.written \subseteq 0..(NumBytes(C) - 1)

\* C8: FromType of a primitive type without a specialization fails with
\* "Unsupported data type" and hands no dtype back, for DtypeUtil and for
\* ObjDtype.
C8_UnsupportedTypeFails ==
    (call.op \in {"FromType", "ObjFromType"} /\ outcome.status # "pending"
        /\ call.T \notin SupportedTypes)
    => /\ outcome.status = "error"
       /\ outcome.error.fmt = UnsupportedMessage

C8_Witness ==
    /\ call.op = "FromType" /\ call.T = "uint32_t"
    /\ outcome.status = "error"

\* C9 as stated: ByteSize and ToString both fail on Undefined and on every
\* value outside the enumeration.
C9_BothLookupsFail ==
    (call.op \in {"ByteSize", "ToString"} /\ outcome.status # "pending"
        /\ call.dtype \notin WellKnownDtypes \ {Undefined})
    => /\ outcome.status = "error"
       /\ outcome.error.fmt = UnsupportedMessage

\* C9 amended: ByteSize fails on Undefined and on every value outside the
\* enumeration; ToString fails on every value outside the enumeration and
\* returns "Undefined" for Undefined.
C9_LookupFailures ==
    (call.op \in {"ByteSize", "ToString"} /\ outcome.status # "pending"
        /\ call.dtype \notin WellKnownDtypes \ {Undefined})
    => IF call.op = "ToString" /\ call.dtype = Undefined
       THEN outcome = Return("Undefined")
       ELSE /\ outcome.status = "error"
            /\ outcome.error.fmt = UnsupportedMessage

C9_Witness ==
    /\ call.op = "ToString" /\ call.dtype = Undefined
    /\ outcome.status = "returned"

\* C10: for each supported type T, ByteSize(FromType<T>()) is the platform
\* size of T and ToString(FromType<T>()) is a label no other supported type
\* has; the ObjDtype of T has the platform size of T too and differs from the
\* ObjDtype of every other supported type.
C10_FromTypeRoundTrip ==
    (call.op \in {"FromType", "ObjFromType"} /\ outcome.status # "pending"
        /\ call.T \in SupportedTypes)
    => /\ outcome.status = "returned"
       /\ call.op = "FromType"
          => /\ DtypeUtil_ByteSize(outcome.value) = Return(SizeOf(call.T))
             /\ DtypeUtil_ToString(outcome.value).status = "returned"
             /\ \A U \in SupportedTypes \ {call.T} :
                   DtypeUtil_ToString(outcome.value)
                       # DtypeUtil_ToString(DtypeUtil_FromType(U).value)
       /\ call.op = "ObjFromType"
          => /\ ObjDtype_ByteSize(outcome.value) = SizeOf(call.T)
             /\ \A U \in SupportedTypes \ {call.T} :
                   outcome.value # ObjDtype_FromType(U).value

C10_Witness ==
    /\ call.op = "FromType" /\ call.T = "bool"
    /\ outcome = Return(Bool)

====
